---------------------------- MODULE Spec2Model ----------------------------
(***************************************************************************)
(* Campus commerce backend (src/backend/main.py, src/schemas.py): the HTTP *)
(* handlers create_product, list_products, seed_products, create_order and *)
(* test_database over a document store with the collections "product" and  *)
(* "order".  Every request is a process; every store round trip is one     *)
(* atomic step, so that concurrent requests interleave between store calls.*)
(*                                                                         *)
(* Money is counted in units of 0.005 INR, so that amounts on both sides   *)
(* of the 0.01 tolerance of create_order are representable (0.01 = 2).     *)
(* Binary floating point rounding is not modelled.                         *)
(***************************************************************************)
EXTENDS Integers, Sequences, FiniteSets, TLC

VARIABLES
  products,   \* the "product" collection, in insertion order
  orders,     \* the "order" collection, in insertion order
  nextId,     \* the store's identifier generator
  dbUp,       \* whether the store accepts calls
  pc,         \* pc[p]: where request p stands
  op,         \* op[p]: the handler request p runs
  arg,        \* arg[p]: the request's input
  loc,        \* loc[p]: the handler's local variables
  resp        \* resp[p]: the HTTP response, once pc[p] = "done"

vars == <<products, orders, nextId, dbUp, pc, op, arg, loc, resp>>

----------------------------------------------------------------------------
(* Bounds *)

\* requests that may run concurrently
NProc == 2
\* requests of the one-after-another seed runs
NSeq == 3
\* documents already stored when the listing runs start
MaxStored == 2
\* products the runs store at most: an insert into a full collection waits
MaxProducts == 10

Procs == 1..NProc
SeqProcs == 1..NSeq
AllProcs == Procs \cup SeqProcs

----------------------------------------------------------------------------
(* Values *)

\* Python's None
None == "<None>"

\* Python truthiness of an Optional[str]: None and "" are falsy
Truthy(s) == s # None /\ s # ""

\* bson ObjectId, assigned by the store
ObjectId(n) == [oid |-> n]

\* str(ObjectId)
Str(id) == "oid" \o ToString(id.oid)

\* the characters of the strings the model uses
Chars(s) ==
  CASE s = "Maggi Bowl (Hot & Fresh)" -> <<"M", "a", "g", "g", "i", " ", "B", "o", "w", "l", " ", "(", "H", "o", "t", " ", "&", " ", "F", "r", "e", "s", "h", ")">>
  [] s = "Cooked to order at the canteen. Pickup in 10 mins." -> <<"C", "o", "o", "k", "e", "d", " ", "t", "o", " ", "o", "r", "d", "e", "r", " ", "a", "t", " ", "t", "h", "e", " ", "c", "a", "n", "t", "e", "e", "n", ".", " ", "P", "i", "c", "k", "u", "p", " ", "i", "n", " ", "1", "0", " ", "m", "i", "n", "s", ".">>
  [] s = "Food" -> <<"F", "o", "o", "d">>
  [] s = "Data Structures Notes (PDF)" -> <<"D", "a", "t", "a", " ", "S", "t", "r", "u", "c", "t", "u", "r", "e", "s", " ", "N", "o", "t", "e", "s", " ", "(", "P", "D", "F", ")">>
  [] s = "Second-year topper notes. Clean and concise." -> <<"S", "e", "c", "o", "n", "d", "-", "y", "e", "a", "r", " ", "t", "o", "p", "p", "e", "r", " ", "n", "o", "t", "e", "s", ".", " ", "C", "l", "e", "a", "n", " ", "a", "n", "d", " ", "c", "o", "n", "c", "i", "s", "e", ".">>
  [] s = "Notes" -> <<"N", "o", "t", "e", "s">>
  [] s = "College Hoodie (Navy)" -> <<"C", "o", "l", "l", "e", "g", "e", " ", "H", "o", "o", "d", "i", "e", " ", "(", "N", "a", "v", "y", ")">>
  [] s = "Official club merchandise. Sizes S-XL." -> <<"O", "f", "f", "i", "c", "i", "a", "l", " ", "c", "l", "u", "b", " ", "m", "e", "r", "c", "h", "a", "n", "d", "i", "s", "e", ".", " ", "S", "i", "z", "e", "s", " ", "S", "-", "X", "L", ".">>
  [] s = "Merch" -> <<"M", "e", "r", "c", "h">>
  [] s = "Event Pass - Battle of Bands" -> <<"E", "v", "e", "n", "t", " ", "P", "a", "s", "s", " ", "-", " ", "B", "a", "t", "t", "l", "e", " ", "o", "f", " ", "B", "a", "n", "d", "s">>
  [] s = "Entry ticket for Saturday 7 PM, Auditorium." -> <<"E", "n", "t", "r", "y", " ", "t", "i", "c", "k", "e", "t", " ", "f", "o", "r", " ", "S", "a", "t", "u", "r", "d", "a", "y", " ", "7", " ", "P", "M", ",", " ", "A", "u", "d", "i", "t", "o", "r", "i", "u", "m", ".">>
  [] s = "Events" -> <<"E", "v", "e", "n", "t", "s">>
  [] s = "Exam Kit (Pens + Highlighter)" -> <<"E", "x", "a", "m", " ", "K", "i", "t", " ", "(", "P", "e", "n", "s", " ", "+", " ", "H", "i", "g", "h", "l", "i", "g", "h", "t", "e", "r", ")">>
  [] s = "Everything you need for finals week." -> <<"E", "v", "e", "r", "y", "t", "h", "i", "n", "g", " ", "y", "o", "u", " ", "n", "e", "e", "d", " ", "f", "o", "r", " ", "f", "i", "n", "a", "l", "s", " ", "w", "e", "e", "k", ".">>
  [] s = "Stationery" -> <<"S", "t", "a", "t", "i", "o", "n", "e", "r", "y">>
  [] s = "Used Calculator" -> <<"U", "s", "e", "d", " ", "C", "a", "l", "c", "u", "l", "a", "t", "o", "r">>
  [] s = "notes" -> <<"n", "o", "t", "e", "s">>
  [] s = "Lab Coat" -> <<"L", "a", "b", " ", "C", "o", "a", "t">>
  [] s = "Keeps your Notes dry." -> <<"K", "e", "e", "p", "s", " ", "y", "o", "u", "r", " ", "N", "o", "t", "e", "s", " ", "d", "r", "y", ".">>
  [] s = "" -> <<>>
  [] s = "maggi" -> <<"m", "a", "g", "g", "i">>
  [] s = "NOTES" -> <<"N", "O", "T", "E", "S">>
  [] s = "club" -> <<"c", "l", "u", "b">>
  [] s = "a.g" -> <<"a", ".", "g">>
  [] s = "Design" -> <<"D", "e", "s", "i", "g", "n">>

Lower(c) ==
  CASE c = "A" -> "a" [] c = "B" -> "b" [] c = "C" -> "c" [] c = "D" -> "d"
    [] c = "E" -> "e" [] c = "F" -> "f" [] c = "G" -> "g" [] c = "H" -> "h"
    [] c = "I" -> "i" [] c = "J" -> "j" [] c = "K" -> "k" [] c = "L" -> "l"
    [] c = "M" -> "m" [] c = "N" -> "n" [] c = "O" -> "o" [] c = "P" -> "p"
    [] c = "Q" -> "q" [] c = "R" -> "r" [] c = "S" -> "s" [] c = "T" -> "t"
    [] c = "U" -> "u" [] c = "V" -> "v" [] c = "W" -> "w" [] c = "X" -> "x"
    [] c = "Y" -> "y" [] c = "Z" -> "z" [] OTHER -> c

\* pattern pat matches text at offset k: "." matches any character, every
\* other character of the patterns used here matches itself, ignoring case
\* ($options "i")
MatchAt(text, pat, k) ==
  \A j \in 1..Len(pat) :
    pat[j] = "." \/ Lower(pat[j]) = Lower(text[k + j])

\* {field: {"$regex": q, "$options": "i"}}: an unanchored search; a field
\* that is null never matches
RegexMatch(value, q) ==
  /\ value # None
  /\ \E k \in 0..(Len(Chars(value)) - Len(Chars(q))) :
       MatchAt(Chars(value), Chars(q), k)

----------------------------------------------------------------------------
(* Payloads *)

\* demo_products of seed_products; prices in units of 0.005 INR
demo_products ==
  << [title |-> "Maggi Bowl (Hot & Fresh)",
      description |-> "Cooked to order at the canteen. Pickup in 10 mins.",
      price |-> 9000, category |-> "Food", in_stock |-> TRUE,
      image |->
        "https://images.unsplash.com/photo-1526318472351-c75fcf070305?q=80&w=1200&auto=format&fit=crop",
      seller_name |-> "Campus Canteen"],
     [title |-> "Data Structures Notes (PDF)",
      description |-> "Second-year topper notes. Clean and concise.",
      price |-> 15800, category |-> "Notes", in_stock |-> TRUE,
      image |->
        "https://images.unsplash.com/photo-1524995997946-a1c2e315a42f?q=80&w=1200&auto=format&fit=crop",
      seller_name |-> "Ananya (CSE)"],
     [title |-> "College Hoodie (Navy)",
      description |-> "Official club merchandise. Sizes S-XL.",
      price |-> 199800, category |-> "Merch", in_stock |-> TRUE,
      image |->
        "https://images.unsplash.com/photo-1548883354-7622d03aca27?q=80&w=1200&auto=format&fit=crop",
      seller_name |-> "Design Club"],
     [title |-> "Event Pass - Battle of Bands",
      description |-> "Entry ticket for Saturday 7 PM, Auditorium.",
      price |-> 39800, category |-> "Events", in_stock |-> TRUE,
      image |->
        "https://images.unsplash.com/photo-1459749411175-04bf5292ceea?q=80&w=1200&auto=format&fit=crop",
      seller_name |-> "Music Club"],
     [title |-> "Exam Kit (Pens + Highlighter)",
      description |-> "Everything you need for finals week.",
      price |-> 25800, category |-> "Stationery", in_stock |-> TRUE,
      image |->
        "https://images.unsplash.com/photo-1481070555726-e2fe8357725c?q=80&w=1200&auto=format&fit=crop",
      seller_name |-> "Stationery Shop"] >>

\* valid Product payloads a client submits (schemas.Product)
ProductInputs ==
  { [title |-> "Used Calculator", description |-> None, price |-> 50000,
     category |-> "notes", in_stock |-> FALSE, image |-> None,
     seller_name |-> None],
    [title |-> "Lab Coat", description |-> "Keeps your Notes dry.",
     price |-> 0, category |-> "Merch", in_stock |-> TRUE,
     image |-> "coat.png", seller_name |-> "Design" ] }

\* OrderItem payloads (schemas.OrderItem): price >= 0, quantity >= 1
ItemA == [product_id |-> "oid1", title |-> "Maggi Bowl (Hot & Fresh)",
          price |-> 9000, quantity |-> 2, image |-> None]
ItemB == [product_id |-> "no-such-product", title |-> "Lab Coat",
          price |-> 1, quantity |-> 3, image |-> "coat.png"]

ItemLists == { <<>>, <<ItemA>>, <<ItemB, ItemA>> }

\* sum(item.price * item.quantity for item in order.items)
RECURSIVE Sum(_)
Sum(items) ==
  IF items = <<>> THEN 0
  ELSE items[1].price * items[1].quantity + Sum(Tail(items))

\* the differences declared - computed the clients of the model submit
Offsets == {-3, -2, -1, 0, 1, 2, 3}

\* valid Order payloads (schemas.Order): total_amount >= 0
OrderInputs ==
  { o \in { [buyer_name |-> "Asha", buyer_email |-> "asha@campus.edu",
             items |-> its,
             payment_method |-> IF Len(its) = 2 THEN "UPI" ELSE "COD",
             status |-> IF Len(its) = 2 THEN "delivered" ELSE "pending",
             total_amount |-> Sum(its) + d] :
               its \in ItemLists, d \in Offsets } :
      o.total_amount >= 0 }

\* |computed - declared| > 0.01: 0.01 INR in units of 0.005 INR
Tol == 2

Abs(x) == IF x < 0 THEN -x ELSE x

\* limit of list_products when the client gives none
DefaultLimit == 50

----------------------------------------------------------------------------
(* Document store adapter: database.create_document, database.get_documents *)

Store == [product |-> products, order |-> orders, nextId |-> nextId]

EmptyStore == [product |-> <<>>, order |-> <<>>, nextId |-> 1]

StoreError == "Database not available"

\* the document as stored: the entity's fields plus the store's identifier
Stored(data, n) ==
  [k \in (DOMAIN data \ {"_id"}) \cup {"_id"} |->
     IF k = "_id" THEN ObjectId(n) ELSE data[k]]

\* create_document(collection_name, data) on store st; up: the store accepts
\* the call
create_document(st, up, name, data) ==
  IF ~up THEN [raised |-> TRUE, store |-> st, id |-> None]
  ELSE [raised |-> FALSE,
        store |-> [st EXCEPT ![name] = Append(@, Stored(data, st.nextId)),
                             !.nextId = @ + 1],
        id |-> Str(ObjectId(st.nextId))]

\* one clause {field: {"$regex": q, "$options": "i"}}
Clause(field, q) == [field |-> field, regex |-> q, options |-> "i"]

\* whether a document satisfies the filter dictionary
Matches(doc, filt) ==
  /\ "category" \in DOMAIN filt => doc.category = filt["category"]
  /\ "$or" \in DOMAIN filt =>
       \E i \in 1..Len(filt["$or"]) :
         RegexMatch(doc[filt["$or"][i].field], filt["$or"][i].regex)

Take(s, n) == IF Len(s) <= n THEN s ELSE SubSeq(s, 1, n)

\* get_documents(collection_name, filter, limit)
get_documents(st, up, name, filt, limit) ==
  IF ~up THEN [raised |-> TRUE, docs |-> <<>>]
  ELSE [raised |-> FALSE,
        docs |-> Take(SelectSeq(st[name], LAMBDA d : Matches(d, filt)), limit)]

----------------------------------------------------------------------------
(* Handlers as functions of the store: what one call computes when nothing *)
(* else runs in between                                                    *)

HTTPException(status_code, detail) ==
  [code |-> status_code, body |-> [detail |-> detail]]

Ok(body) == [code |-> 200, body |-> body]

\* mutant: the public id is added and the internal _id is left in place
_serialize_NoPop(doc) ==
  IF "_id" \in DOMAIN doc
  THEN [k \in DOMAIN doc \cup {"id"} |->
          IF k = "id" THEN Str(doc["_id"]) ELSE doc[k]]
  ELSE doc

\* _serialize(doc)
_serialize(doc) ==
  IF "_id" \in DOMAIN doc
  THEN [k \in (DOMAIN doc \ {"_id"}) \cup {"id"} |->
          IF k = "id" THEN Str(doc["_id"]) ELSE doc[k]]
  ELSE doc

EmptyDict == [k \in {} |-> None]

\* the filter list_products builds from category and q
Filter(category, q) ==
  (IF Truthy(category) THEN [category |-> category] ELSE EmptyDict)
  @@ (IF Truthy(q)
      THEN [k \in {"$or"} |-> << Clause("title", q), Clause("description", q),
                                 Clause("category", q) >>]
      ELSE EmptyDict)

create_product(st, up, product) ==
  LET r == create_document(st, up, "product", product) IN
  IF r.raised THEN [store |-> st, resp |-> HTTPException(500, StoreError)]
  ELSE [store |-> r.store, resp |-> Ok([id |-> r.id])]

list_products(st, up, category, q, limit) ==
  LET r == get_documents(st, up, "product", Filter(category, q), limit) IN
  IF r.raised THEN [store |-> st, resp |-> HTTPException(500, StoreError)]
  ELSE [store |-> st,
        resp |-> Ok([i \in 1..Len(r.docs) |-> _serialize(r.docs[i])])]

\* mutant: the comparison without abs()
InvalidTotal_NoAbs(order) == Sum(order.items) - order.total_amount > Tol

\* mutant: the comparison with >= for >
InvalidTotal_Inclusive(order) ==
  Abs(Sum(order.items) - order.total_amount) >= Tol

\* the total check of create_order
InvalidTotal(order) == Abs(Sum(order.items) - order.total_amount) > Tol

create_order(st, up, order) ==
  IF InvalidTotal(order)
  THEN [store |-> st, resp |-> HTTPException(400, "Invalid total amount")]
  ELSE LET r == create_document(st, up, "order", order) IN
       IF r.raised THEN [store |-> st, resp |-> HTTPException(500, StoreError)]
       ELSE [store |-> r.store, resp |-> Ok([id |-> r.id])]

----------------------------------------------------------------------------
(* Requests: one step per store round trip *)

SetStore(st) ==
  /\ products' = st.product
  /\ orders' = st.order
  /\ nextId' = st.nextId

\* the product collection is below the bound of the model
Room == Len(products) < MaxProducts

\* request p returns response r
Return(p, r) ==
  /\ pc' = [pc EXCEPT ![p] = "done"]
  /\ resp' = [resp EXCEPT ![p] = r]

\* POST /products arrives
CreateProductCall(p, product) ==
  /\ pc[p] = "idle"
  /\ pc' = [pc EXCEPT ![p] = "insert"]
  /\ op' = [op EXCEPT ![p] = "create_product"]
  /\ arg' = [arg EXCEPT ![p] = product]
  /\ UNCHANGED <<products, orders, nextId, dbUp, loc, resp>>

\* mutant: the insert is sent a second time
CreateProductInsert_Twice(p) ==
  /\ pc[p] = "insert" /\ op[p] = "create_product"
  /\ Room
  /\ LET r == create_product(Store, dbUp, arg[p]) IN
       SetStore(create_product(r.store, dbUp, arg[p]).store) /\ Return(p, r.resp)
  /\ UNCHANGED <<dbUp, op, arg, loc>>

\* create_product: create_document("product", product) and the response
CreateProductInsert(p) ==
  /\ pc[p] = "insert" /\ op[p] = "create_product"
  /\ Room
  /\ LET r == create_product(Store, dbUp, arg[p]) IN
       SetStore(r.store) /\ Return(p, r.resp)
  /\ UNCHANGED <<dbUp, op, arg, loc>>

\* GET /products arrives
ListProductsCall(p, category, q, limit) ==
  /\ pc[p] = "idle"
  /\ pc' = [pc EXCEPT ![p] = "query"]
  /\ op' = [op EXCEPT ![p] = "list_products"]
  /\ arg' = [arg EXCEPT ![p] = [category |-> category, q |-> q, limit |-> limit]]
  /\ UNCHANGED <<products, orders, nextId, dbUp, loc, resp>>

\* list_products: get_documents("product", filt, limit) and the response
ListProductsQuery(p) ==
  /\ pc[p] = "query" /\ op[p] = "list_products"
  /\ LET r == list_products(Store, dbUp, arg[p].category, arg[p].q, arg[p].limit) IN
       SetStore(r.store) /\ Return(p, r.resp)
  /\ UNCHANGED <<dbUp, op, arg, loc>>

\* POST /seed arrives
SeedCall(p) ==
  /\ pc[p] = "idle"
  /\ pc' = [pc EXCEPT ![p] = "probe"]
  /\ op' = [op EXCEPT ![p] = "seed_products"]
  /\ UNCHANGED <<products, orders, nextId, dbUp, arg, loc, resp>>

AlreadyExist == Ok([status |-> "ok", message |-> "Products already exist"])

Inserted(n) == Ok([status |-> "ok", inserted |-> n])

\* mutant: the probe asks whether the whole demo set is there
SeedProbe_Full(p) ==
  /\ pc[p] = "probe" /\ op[p] = "seed_products"
  /\ LET r == get_documents(Store, dbUp, "product", EmptyDict,
                            Len(demo_products)) IN
       IF r.raised
       THEN Return(p, HTTPException(500, StoreError)) /\ UNCHANGED loc
       ELSE IF Len(r.docs) >= Len(demo_products)
       THEN Return(p, AlreadyExist) /\ UNCHANGED loc
       ELSE /\ pc' = [pc EXCEPT ![p] = "seed"]
            /\ loc' = [loc EXCEPT ![p] = 1]
            /\ UNCHANGED resp
  /\ UNCHANGED <<products, orders, nextId, dbUp, op, arg>>

\* seed_products: existing = get_documents("product", {}, limit=1)
SeedProbe(p) ==
  /\ pc[p] = "probe" /\ op[p] = "seed_products"
  /\ LET r == get_documents(Store, dbUp, "product", EmptyDict, 1) IN
       IF r.raised
       THEN Return(p, HTTPException(500, StoreError)) /\ UNCHANGED loc
       ELSE IF r.docs # <<>>
       THEN Return(p, AlreadyExist) /\ UNCHANGED loc
       ELSE /\ pc' = [pc EXCEPT ![p] = "seed"]
            /\ loc' = [loc EXCEPT ![p] = 1]
            /\ UNCHANGED resp
  /\ UNCHANGED <<products, orders, nextId, dbUp, op, arg>>

\* mutant: the loop stops one product early
SeedInsert_OffByOne(p) ==
  /\ pc[p] = "seed" /\ op[p] = "seed_products"
  /\ Room
  /\ LET r == create_document(Store, dbUp, "product", demo_products[loc[p]]) IN
       IF r.raised
       THEN /\ Return(p, HTTPException(500, StoreError))
            /\ UNCHANGED <<products, orders, nextId, loc>>
       ELSE /\ SetStore(r.store)
            /\ IF loc[p] = Len(demo_products) - 1
               THEN Return(p, Inserted(Len(demo_products))) /\ UNCHANGED loc
               ELSE /\ loc' = [loc EXCEPT ![p] = @ + 1]
                    /\ UNCHANGED <<pc, resp>>
  /\ UNCHANGED <<dbUp, op, arg>>

\* mutant: a failed insert removes what this call inserted before it
SeedInsert_Rollback(p) ==
  /\ pc[p] = "seed" /\ op[p] = "seed_products"
  /\ Room
  /\ LET r == create_document(Store, dbUp, "product", demo_products[loc[p]]) IN
       IF r.raised
       THEN /\ Return(p, HTTPException(500, StoreError))
            /\ products' = SubSeq(products, 1, Len(products) - (loc[p] - 1))
            /\ UNCHANGED <<orders, nextId, loc>>
       ELSE /\ SetStore(r.store)
            /\ IF loc[p] = Len(demo_products)
               THEN Return(p, Inserted(Len(demo_products))) /\ UNCHANGED loc
               ELSE /\ loc' = [loc EXCEPT ![p] = @ + 1]
                    /\ UNCHANGED <<pc, resp>>
  /\ UNCHANGED <<dbUp, op, arg>>

\* mutant: the emptiness check is repeated right before the first insert
SeedInsert_Recheck(p) ==
  /\ pc[p] = "seed" /\ op[p] = "seed_products"
  /\ Room
  /\ LET r == create_document(Store, dbUp, "product", demo_products[loc[p]]) IN
       IF r.raised
       THEN /\ Return(p, HTTPException(500, StoreError))
            /\ UNCHANGED <<products, orders, nextId, loc>>
       ELSE IF loc[p] = 1 /\ products # <<>>
       THEN /\ Return(p, AlreadyExist)
            /\ UNCHANGED <<products, orders, nextId, loc>>
       ELSE /\ SetStore(r.store)
            /\ IF loc[p] = Len(demo_products)
               THEN Return(p, Inserted(Len(demo_products))) /\ UNCHANGED loc
               ELSE /\ loc' = [loc EXCEPT ![p] = @ + 1]
                    /\ UNCHANGED <<pc, resp>>
  /\ UNCHANGED <<dbUp, op, arg>>

\* seed_products: one round of `for p in demo_products: create_document(...)`;
\* loc[p] is the position in demo_products
SeedInsert(p) ==
  /\ pc[p] = "seed" /\ op[p] = "seed_products"
  /\ Room
  /\ LET r == create_document(Store, dbUp, "product", demo_products[loc[p]]) IN
       IF r.raised
       THEN /\ Return(p, HTTPException(500, StoreError))
            /\ UNCHANGED <<products, orders, nextId, loc>>
       ELSE /\ SetStore(r.store)
            /\ IF loc[p] = Len(demo_products)
               THEN Return(p, Inserted(Len(demo_products))) /\ UNCHANGED loc
               ELSE /\ loc' = [loc EXCEPT ![p] = @ + 1]
                    /\ UNCHANGED <<pc, resp>>
  /\ UNCHANGED <<dbUp, op, arg>>

\* POST /orders arrives: the total is checked before the store is touched
CreateOrderCall(p, order) ==
  /\ pc[p] = "idle"
  /\ op' = [op EXCEPT ![p] = "create_order"]
  /\ arg' = [arg EXCEPT ![p] = order]
  /\ IF InvalidTotal(order)
     THEN Return(p, HTTPException(400, "Invalid total amount"))
     ELSE pc' = [pc EXCEPT ![p] = "insert"] /\ UNCHANGED resp
  /\ UNCHANGED <<products, orders, nextId, dbUp, loc>>

\* mutant: the new order replaces the collection's documents
CreateOrderInsert_Replace(p) ==
  /\ pc[p] = "insert" /\ op[p] = "create_order"
  /\ LET r == create_order(Store, dbUp, arg[p]) IN
       /\ SetStore([r.store EXCEPT
                      !.order = IF r.resp.code = 200
                                THEN <<r.store.order[Len(r.store.order)]>>
                                ELSE @])
       /\ Return(p, r.resp)
  /\ UNCHANGED <<dbUp, op, arg, loc>>

\* create_order: create_document("order", order) and the response
CreateOrderInsert(p) ==
  /\ pc[p] = "insert" /\ op[p] = "create_order"
  /\ LET r == create_order(Store, dbUp, arg[p]) IN
       SetStore(r.store) /\ Return(p, r.resp)
  /\ UNCHANGED <<dbUp, op, arg, loc>>

\* db.list_collection_names()[:10]: the collections that hold a document
CollectionNames ==
  Take((IF products # <<>> THEN <<"product">> ELSE <<>>)
       \o (IF orders # <<>> THEN <<"order">> ELSE <<>>), 10)

\* GET /test.  db is the module's store handle, which exists only when
\* DATABASE_URL and DATABASE_NAME are set, so both are reported as set; a
\* store that is down makes list_collection_names() raise.
TestDatabase(p) ==
  /\ pc[p] = "idle"
  /\ op' = [op EXCEPT ![p] = "test_database"]
  /\ Return(p, Ok([backend |-> "Running",
                   database |-> IF dbUp THEN "Connected & Working"
                                ELSE "Connected but Error",
                   database_url |-> "Set",
                   database_name |-> "Set",
                   connection_status |-> "Connected",
                   collections |-> IF dbUp THEN CollectionNames ELSE <<>>]))
  /\ UNCHANGED <<products, orders, nextId, dbUp, arg, loc>>

\* the store goes away or comes back
StoreToggle ==
  /\ dbUp' = ~dbUp
  /\ UNCHANGED <<products, orders, nextId, pc, op, arg, loc, resp>>

----------------------------------------------------------------------------
(* Specifications *)

InitRequests ==
  /\ pc = [p \in AllProcs |-> "idle"]
  /\ op = [p \in AllProcs |-> None]
  /\ arg = [p \in AllProcs |-> None]
  /\ loc = [p \in AllProcs |-> 0]
  /\ resp = [p \in AllProcs |-> None]

\* the store is empty and up, no request has arrived
Init ==
  /\ products = <<>>
  /\ orders = <<>>
  /\ nextId = 1
  /\ dbUp = TRUE
  /\ InitRequests

\* the listings requested where every handler runs
ListInputs ==
  { [category |-> None, q |-> None, limit |-> DefaultLimit],
    [category |-> "Merch", q |-> "maggi", limit |-> 1] }

\* the orders submitted where every handler runs: one with the right total,
\* one with a total that is off by more than the tolerance
FewOrders ==
  { o \in OrderInputs :
      o.items = <<ItemA>> /\ o.total_amount - Sum(o.items) \in {0, 3} }

\* every handler, concurrently
Next ==
  \/ \E p \in Procs, x \in ProductInputs : CreateProductCall(p, x)
  \/ \E p \in Procs : CreateProductInsert(p)
  \/ \E p \in Procs, x \in ListInputs :
       ListProductsCall(p, x.category, x.q, x.limit)
  \/ \E p \in Procs : ListProductsQuery(p)
  \/ \E p \in Procs : SeedCall(p)
  \/ \E p \in Procs : SeedProbe(p)
  \/ \E p \in Procs : SeedInsert(p)
  \/ \E p \in Procs, x \in FewOrders : CreateOrderCall(p, x)
  \/ \E p \in Procs : CreateOrderInsert(p)
  \/ \E p \in Procs : TestDatabase(p)
  \/ StoreToggle

Spec == Init /\ [][Next]_vars

\* create_order alone, concurrently, with every order of OrderInputs
NextOrders ==
  \/ \E p \in Procs, x \in OrderInputs : CreateOrderCall(p, x)
  \/ \E p \in Procs : CreateOrderInsert(p)
  \/ StoreToggle

SpecOrders == Init /\ [][NextOrders]_vars

\* seed calls one after another: call p + 1 arrives after call p returned
SeqTurn(p) == \A q \in SeqProcs : q < p => pc[q] = "done"

SeqSeedCall(p) == SeqTurn(p) /\ SeedCall(p)

NextSeqSeed ==
  \/ \E p \in SeqProcs : SeqSeedCall(p)
  \/ \E p \in SeqProcs : SeedProbe(p)
  \/ \E p \in SeqProcs : SeedInsert(p)
  \/ StoreToggle

SpecSeqSeed == Init /\ [][NextSeqSeed]_vars

\* the handlers other than seed and the diagnostics, concurrently
NextNoSeed ==
  \/ \E p \in Procs, x \in ProductInputs : CreateProductCall(p, x)
  \/ \E p \in Procs : CreateProductInsert(p)
  \/ \E p \in Procs, x \in ListInputs :
       ListProductsCall(p, x.category, x.q, x.limit)
  \/ \E p \in Procs : ListProductsQuery(p)
  \/ \E p \in Procs, x \in FewOrders : CreateOrderCall(p, x)
  \/ \E p \in Procs : CreateOrderInsert(p)
  \/ StoreToggle

SpecNoSeed == Init /\ [][NextNoSeed]_vars

----------------------------------------------------------------------------
(* Vocabulary of the properties *)

\* the fields of a stored document other than the store's identifier
Payload(doc) == [k \in DOMAIN doc \ {"_id"} |-> doc[k]]

\* request p takes a step
Steps(p) == pc'[p] # pc[p] \/ loc'[p] # loc[p]

\* the declared total is off by more than 0.01 (2 units of 0.005)
TotalOff(order) ==
  \/ Sum(order.items) - order.total_amount > 2
  \/ order.total_amount - Sum(order.items) > 2

Rejected400 == [code |-> 400, body |-> [detail |-> "Invalid total amount"]]

----------------------------------------------------------------------------
(* C1: an order whose declared total differs from the sum of price*quantity *)
(* by more than 0.01 is answered 400 "Invalid total amount" in the step     *)
(* that receives it, whether the store is up or down, that step leaves both *)
(* collections unchanged, and no stored order has such a total.             *)

C1_RejectStep ==
  \A p \in Procs :
    (pc[p] = "idle" /\ pc'[p] # "idle" /\ op'[p] = "create_order"
       /\ TotalOff(arg'[p]))
    => /\ pc'[p] = "done"
       /\ resp'[p] = Rejected400
       /\ orders' = orders /\ products' = products /\ nextId' = nextId

C1_NothingPersisted ==
  /\ \A i \in 1..Len(orders) : ~TotalOff(orders[i])
  /\ \A p \in Procs :
       (op[p] = "create_order" /\ TotalOff(arg[p]))
       => (pc[p] = "done" /\ resp[p] = Rejected400)

\* C1: an order whose total is off by more than 0.01 is answered 400 in the
\* step that receives it, store up or down, and is never stored
C1_InvalidTotalRejected == []C1_NothingPersisted /\ [][C1_RejectStep]_vars

\* an order with an off total was answered 400 while the store is down and
\* nothing is stored
C1_Witness ==
  \E p \in Procs :
    /\ op[p] = "create_order" /\ pc[p] = "done"
    /\ arg[p].total_amount - Sum(arg[p].items) = 3
    /\ resp[p] = Rejected400
    /\ ~dbUp /\ orders = <<>>

----------------------------------------------------------------------------
(* C6: an order whose declared total is within 0.01 of the sum (a           *)
(* difference of exactly 0.01 included) is inserted when the store is up:   *)
(* the step adds exactly one order document, which is the submitted payload *)
(* (items in order with all snapshot fields, status and payment_method      *)
(* verbatim) plus the store's identifier, and answers 200 {id} with that    *)
(* identifier; the document answered for stays the only one with that id.   *)

C6_InsertStep ==
  \A p \in Procs :
    (op[p] = "create_order" /\ pc[p] = "insert" /\ Steps(p) /\ dbUp)
    => /\ ~TotalOff(arg[p])
       /\ Len(orders') = Len(orders) + 1
       /\ SubSeq(orders', 1, Len(orders)) = orders
       /\ Payload(orders'[Len(orders')]) = arg[p]
       /\ pc'[p] = "done"
       /\ resp'[p] = [code |-> 200,
                      body |-> [id |-> Str(orders'[Len(orders')]["_id"])]]

C6_Stored ==
  \A p \in Procs :
    (op[p] = "create_order" /\ ~TotalOff(arg[p]))
    => /\ pc[p] \in {"insert", "done"}
       /\ pc[p] = "done" => resp[p].code \in {200, 500}
       /\ (pc[p] = "done" /\ resp[p].code = 200)
          => /\ Cardinality({ i \in 1..Len(orders) :
                                Str(orders[i]["_id"]) = resp[p].body.id }) = 1
             /\ \E i \in 1..Len(orders) :
                  /\ Str(orders[i]["_id"]) = resp[p].body.id
                  /\ orders[i].items = arg[p].items
                  /\ orders[i].status = arg[p].status
                  /\ orders[i].payment_method = arg[p].payment_method
                  /\ Payload(orders[i]) = arg[p]

----------------------------------------------------------------------------
(* Seed *)

Inserted5 == [code |-> 200, body |-> [status |-> "ok", inserted |-> 5]]

Exists200 ==
  [code |-> 200, body |-> [status |-> "ok", message |-> "Products already exist"]]

\* the collection holds the first n demo products, in order, and nothing else
DemoPrefix(n) ==
  /\ Len(products) = n
  /\ \A i \in 1..n : Payload(products[i]) = demo_products[i]

\* how many stored products carry the payload of demo product i
Copies(i) ==
  Cardinality({ j \in 1..Len(products) : Payload(products[j]) = demo_products[i] })

(* C2: in a run of seed calls made one after another on a store that starts *)
(* empty, as long as no call met a store failure, the first call answers    *)
(* inserted = 5, every later call answers "Products already exist", and the *)
(* collection holds exactly the 5 demo products.                            *)
C2_SeedOnce ==
  \A p \in SeqProcs :
    (pc[p] = "done" /\ \A q \in 1..p : resp[q].code = 200)
    => /\ resp[p] = IF p = 1 THEN Inserted5 ELSE Exists200
       /\ DemoPrefix(5)

\* every call of the run returned without a store failure: the first
\* inserted, the last found the products
C2_Witness ==
  /\ \A p \in SeqProcs : pc[p] = "done" /\ resp[p].code = 200
  /\ resp[1] = Inserted5 /\ resp[NSeq] = Exists200 /\ NSeq > 1
  /\ Len(products) = 5

(* C10: when the store rejects an insert of a seed call the call ends with  *)
(* 500 and the collection stays as it is; after a rejection of the k-th     *)
(* insert, 1 < k <= 5, of a call that found the collection empty, the k-1   *)
(* demo products inserted before stay stored, and every later seed call     *)
(* inserts nothing and answers "Products already exist" (or 500 when its    *)
(* probe fails), so the collection never reaches the 5 demo products.       *)
C10_FailStep ==
  \A p \in SeqProcs :
    (pc[p] = "seed" /\ ~dbUp /\ Steps(p))
    => /\ pc'[p] = "done"
       /\ resp'[p].code = 500
       /\ products' = products

C10_Partial ==
  \A p \in SeqProcs :
    (pc[p] = "done" /\ resp[p].code = 500 /\ loc[p] > 1)
    => /\ loc[p] <= 5
       /\ DemoPrefix(loc[p] - 1)
       /\ \A q \in SeqProcs :
            q > p => /\ pc[q] \in {"idle", "probe", "done"}
                     /\ loc[q] = 0
                     /\ pc[q] = "done" => (resp[q] = Exists200 \/ resp[q].code = 500)

\* C10: a seed call whose k-th insert is rejected answers 500, its k-1
\* products stay, and later calls insert nothing
C10_PartialSeedStays == []C10_Partial /\ [][C10_FailStep]_vars

\* the third insert of the first call was rejected, two products stay, and
\* a later call answered "Products already exist"
C10_Witness ==
  /\ pc[1] = "done" /\ resp[1].code = 500 /\ loc[1] = 3
  /\ Len(products) = 2
  /\ pc[2] = "done" /\ resp[2] = Exists200

(* C3: a seed call that found the collection empty inserts its 5 products   *)
(* without looking again, so two calls that both answer inserted = 5 leave  *)
(* every demo product stored at least twice.                                *)
C3_NoRecheck ==
  \A p \in Procs :
    (op[p] = "seed_products" /\ pc[p] = "seed" /\ dbUp /\ Steps(p))
    => /\ Len(products') = Len(products) + 1
       /\ Payload(products'[Len(products')]) = demo_products[loc[p]]
       /\ loc[p] = 5 => (pc'[p] = "done" /\ resp'[p] = Inserted5)

C3_Both ==
  \A p, q \in Procs :
    (p # q /\ op[p] = "seed_products" /\ op[q] = "seed_products"
       /\ pc[p] = "done" /\ pc[q] = "done"
       /\ resp[p] = Inserted5 /\ resp[q] = Inserted5)
    => \A i \in 1..5 : Copies(i) >= 2

\* C3: a call past the probe inserts all 5 products without looking again;
\* two calls that both insert leave every demo product at least twice
C3_SeedRace == []C3_Both /\ [][C3_NoRecheck]_vars

\* two calls both answered inserted = 5 and the collection holds 10
\* documents, every demo product twice
C3_Witness ==
  /\ \E p, q \in Procs :
       p # q /\ op[p] = "seed_products" /\ op[q] = "seed_products"
         /\ pc[p] = "done" /\ pc[q] = "done"
         /\ resp[p] = Inserted5 /\ resp[q] = Inserted5
  /\ Len(products) = 10
  /\ \A i \in 1..5 : Copies(i) = 2

(* C4: a seed call that arrives or probes while the product collection is   *)
(* not empty changes neither collection, and its probe, the store being up, *)
(* answers {status: ok, message: "Products already exist"}.                 *)
C4_NoOp ==
  \A p \in Procs :
    (op'[p] = "seed_products" /\ pc[p] \in {"idle", "probe"} /\ Steps(p)
       /\ products # <<>>)
    => /\ products' = products /\ orders' = orders /\ nextId' = nextId
       /\ (pc[p] = "probe" /\ dbUp) => (pc'[p] = "done" /\ resp'[p] = Exists200)

\* C4: seed on a non-empty product collection changes nothing and answers
\* "Products already exist"
C4_SeedNoOpWhenNonEmpty == [][C4_NoOp]_vars

\* seed answered "Products already exist" on a collection that holds one
\* product that is not demo data
C4_Witness ==
  \E p \in Procs :
    /\ op[p] = "seed_products" /\ pc[p] = "done" /\ resp[p] = Exists200
    /\ Len(products) = 1 /\ products[1].title = "Used Calculator"

----------------------------------------------------------------------------
(* C7: a listing with no filter and a limit that covers the collection      *)
(* returns, for every product a create_product call was answered 200 for,   *)
(* exactly one document whose id is the id that call returned, a non-empty  *)
(* string, with no _id field and with every submitted field unchanged.      *)

C7_ListStep ==
  \A q \in Procs :
    (op[q] = "list_products" /\ pc[q] = "query" /\ Steps(q) /\ dbUp
       /\ arg[q].category = None /\ arg[q].q = None
       /\ Len(products) <= arg[q].limit)
    => /\ resp'[q].code = 200
       /\ \A p \in Procs :
            (op[p] = "create_product" /\ pc[p] = "done" /\ resp[p].code = 200)
            => LET body == resp'[q].body
                   hits == { i \in 1..Len(body) : body[i].id = resp[p].body.id }
               IN /\ Cardinality(hits) = 1
                  /\ \A i \in hits :
                       /\ body[i].id # ""
                       /\ "_id" \notin DOMAIN body[i]
                       /\ DOMAIN body[i] = DOMAIN arg[p] \cup {"id"}
                       /\ \A k \in DOMAIN arg[p] : body[i][k] = arg[p][k]

\* C7: an unfiltered listing returns every created product once, under the
\* id create returned, without _id, the submitted fields unchanged
C7_CreateThenList == [][C7_ListStep]_vars

\* a product was created and a later unfiltered listing returned it
C7_Witness ==
  \E p, q \in Procs :
    /\ op[p] = "create_product" /\ pc[p] = "done" /\ resp[p].code = 200
    /\ op[q] = "list_products" /\ pc[q] = "done" /\ resp[q].code = 200
    /\ arg[q].category = None /\ arg[q].q = None
    /\ \E i \in 1..Len(resp[q].body) :
         /\ resp[q].body[i].id = resp[p].body.id
         /\ resp[q].body[i].title = arg[p].title

----------------------------------------------------------------------------
(* C8: every step keeps every stored document where it is, unchanged: both  *)
(* collections only grow at their end; the steps of list_products and       *)
(* test_database change neither collection; the identifiers of the stored   *)
(* documents are store-assigned, pairwise distinct over both collections,   *)
(* and the other fields of a document are a submitted payload, which        *)
(* carries no identifier.                                                   *)

IsPrefix(s, t) == Len(s) <= Len(t) /\ SubSeq(t, 1, Len(s)) = s

C8_Grow ==
  /\ IsPrefix(products, products')
  /\ IsPrefix(orders, orders')
  /\ \A p \in Procs :
       (Steps(p) /\ op'[p] \in {"list_products", "test_database"})
       => (products' = products /\ orders' = orders /\ nextId' = nextId)

\* identifiers are store-assigned: object ids below the generator's next
\* value, increasing along a collection
Increasing(coll) ==
  /\ \A i \in 1..Len(coll) :
       coll[i]["_id"].oid \in 1..(nextId - 1) /\ "id" \notin DOMAIN coll[i]
  /\ \A i \in 1..(Len(coll) - 1) : coll[i]["_id"].oid < coll[i + 1]["_id"].oid

C8_Ids ==
  /\ Increasing(products) /\ Increasing(orders)
  /\ \A i \in 1..Len(orders) : \A j \in 1..Len(products) :
       orders[i]["_id"] # products[j]["_id"]
  /\ \A i \in 1..Len(products) :
       \/ Payload(products[i]) \in ProductInputs
       \/ \E k \in 1..Len(demo_products) : Payload(products[i]) = demo_products[k]
  /\ \A i \in 1..Len(orders) : Payload(orders[i]) \in OrderInputs

\* C8: stored documents are never changed or removed, their identifiers are
\* store-assigned and distinct, list_products and test_database change nothing
C8_DocumentsImmutable == []C8_Ids /\ [][C8_Grow]_vars

\* a seed call stored the 5 demo products and a later listing returned all
\* of them as they were stored
C8_Witness ==
  \E p, q \in Procs :
    /\ op[p] = "seed_products" /\ pc[p] = "done" /\ resp[p] = Inserted5
    /\ op[q] = "list_products" /\ pc[q] = "done" /\ resp[q].code = 200
    /\ Len(resp[q].body) = 5 /\ DemoPrefix(5)

----------------------------------------------------------------------------
(* C9: without seed, the requests that have returned are explained by       *)
(* running their handlers one after another in some order from the empty    *)
(* store: that run ends with the collections as they are (identifiers       *)
(* included) and gives every request the response it got.  A request that   *)
(* was answered 500 met the store down in that run too.                     *)

\* whether the store answered request p
SeqUp(p) == resp[p].code # 500

RunOne(st, p) ==
  CASE op[p] = "create_product" -> create_product(st, SeqUp(p), arg[p])
    [] op[p] = "list_products" ->
         list_products(st, SeqUp(p), arg[p].category, arg[p].q, arg[p].limit)
    [] op[p] = "create_order" -> create_order(st, SeqUp(p), arg[p])

RECURSIVE RunSeq(_, _)
RunSeq(st, order) ==
  IF order = <<>> THEN [store |-> st, ok |-> TRUE]
  ELSE LET p == Head(order)
           r == RunOne(st, p)
       IN IF r.resp.code = resp[p].code /\ r.resp.body = resp[p].body
          THEN RunSeq(r.store, Tail(order))
          ELSE [store |-> st, ok |-> FALSE]

\* the orders in which the requests of D can run one after another
Orderings(D) ==
  { f \in [1..Cardinality(D) -> D] :
      \A i, j \in 1..Cardinality(D) : f[i] = f[j] => i = j }

\* C9: the requests that returned are explained by running them one after
\* another in some order: same collections, same responses
C9_Serializable ==
  LET D == { p \in Procs : pc[p] = "done" } IN
  \E f \in Orderings(D) :
    LET r == RunSeq(EmptyStore, f) IN r.ok /\ r.store = Store

\* every request has returned; one created a product and another listed it
C9_Witness ==
  /\ \A p \in Procs : pc[p] = "done"
  /\ \E p, q \in Procs :
       /\ op[p] = "create_product" /\ resp[p].code = 200
       /\ op[q] = "list_products" /\ resp[q].code = 200
       /\ Len(resp[q].body) = 1

----------------------------------------------------------------------------
(* Listing over a stored collection *)

\* what clients and seed store
Catalog ==
  ProductInputs \cup { demo_products[i] : i \in 1..Len(demo_products) }

\* the product collections the listing runs start from: up to MaxStored
\* products of the catalog in any order, or the seeded set
StoredPayloads ==
  UNION { [1..n -> Catalog] : n \in 0..MaxStored } \cup {demo_products}

Categories == {None, "", "Notes", "notes", "Merch"}

Queries == {None, "", "maggi", "NOTES", "club", "Design", "a.g"}

Limits == {1, 2, DefaultLimit}

InitList ==
  /\ \E s \in StoredPayloads :
       /\ products = [i \in 1..Len(s) |-> Stored(s[i], i)]
       /\ nextId = Len(s) + 1
  /\ orders = <<>>
  /\ dbUp = TRUE
  /\ InitRequests

NextList ==
  \/ \E c \in Categories, q \in Queries, l \in Limits : ListProductsCall(1, c, q, l)
  \/ ListProductsQuery(1)
  \/ StoreToggle

SpecList == InitList /\ [][NextList]_vars

\* q occurs in s, ignoring case
SubstringCI(q, s) ==
  /\ s # None
  /\ \E k \in 0..(Len(Chars(s)) - Len(Chars(q))) :
       \A j \in 1..Len(Chars(q)) :
         Lower(Chars(q)[j]) = Lower(Chars(s)[k + j])

\* an Optional[str] parameter that is not given (None, or the empty string,
\* which the handler reads as not given)
Absent(x) == x = None \/ x = ""

\* the products the listing is to return
Wanted(d, category, q) ==
  /\ Absent(category) \/ d.category = category
  /\ Absent(q) \/ SubstringCI(q, d.title) \/ SubstringCI(q, d.description)
       \/ SubstringCI(q, d.category)

WantedIn(a) == SelectSeq(products, LAMBDA d : Wanted(d, a.category, a.q))

(* C5: an answered listing returns only products whose category equals the  *)
(* given category (when one is given) and that contain q, ignoring case, in *)
(* title, description or category (when q is given), and all of them when   *)
(* they are no more than limit.                                             *)
C5_ListFilter ==
  (pc[1] = "done" /\ op[1] = "list_products" /\ resp[1].code = 200)
  => LET body == resp[1].body
         all == WantedIn(arg[1])
     IN /\ \A i \in 1..Len(body) : Wanted(body[i], arg[1].category, arg[1].q)
        /\ Len(all) <= arg[1].limit
           => body = [i \in 1..Len(all) |-> _serialize(all[i])]

\* the same for the listings whose q holds no "."
C5_ListFilterLiteral ==
  (pc[1] = "done" /\ op[1] = "list_products" /\ resp[1].code = 200
     /\ arg[1].q # "a.g")
  => LET body == resp[1].body
         all == WantedIn(arg[1])
     IN /\ \A i \in 1..Len(body) : Wanted(body[i], arg[1].category, arg[1].q)
        /\ Len(all) <= arg[1].limit
           => body = [i \in 1..Len(all) |-> _serialize(all[i])]
        /\ (arg[1].q = "maggi" /\ Absent(arg[1].category) /\ DemoPrefix(5))
           => (Len(body) = 1 /\ body[1].title = "Maggi Bowl (Hot & Fresh)")
        /\ arg[1].category = "Notes"
           => \A i \in 1..Len(body) : body[i].category = "Notes"
====
